---- MODULE Spec2Model ----
(***************************************************************************)
(* Model of pgsqltoolsservice/edit_data/data_editor_session.py:            *)
(* DataEditorSession (initialize, on_query_execution_complete,             *)
(* update_cell, _validate_query_for_session, _construct_initialize_query,  *)
(* get_rows).                                                              *)
(*                                                                         *)
(* Python's None is modelled as the empty sequence and a present value x   *)
(* as <<x>>, so that "is None" is a test the model can get wrong.          *)
(***************************************************************************)
EXTENDS Integers, Sequences, FiniteSets, TLC

VARIABLES
    _session_cache,    \* Dict[int, RowEdit]: function from cached row ids to entities
    _next_row_id,      \* None or <<n>>
    _is_initialized,   \* bool
    _result_set,       \* None or <<result set>>
    table_metadata,    \* None or <<EditTableMetadata>>
    pending,           \* completion callbacks handed to the executor and not fired yet
    nCalls,            \* number of initialize calls made so far
    lastOp,            \* the last operation, its arguments and its outcome
    nUpdates,          \* number of update_cell calls made so far
    failed             \* some completion callback has invoked on_failure

vars == <<_session_cache, _next_row_id, _is_initialized, _result_set,
          table_metadata, pending, nCalls, lastOp, nUpdates, failed>>

(***************************************************************************)
(* Bounds                                                                  *)
(***************************************************************************)
MaxCalls == 2
MaxUpdates == 2
MaxIndex == 2

(***************************************************************************)
(* Option values                                                           *)
(***************************************************************************)
None == <<>>
Some(x) == <<x>>
IsNone(o) == o = <<>>
Val(o) == o[1]

Min(a, b) == IF a < b THEN a ELSE b

(***************************************************************************)
(* External collaborators: result sets, metadata, execution states         *)
(***************************************************************************)
RSA == [id |-> "A", columns |-> <<"id", "name">>,
        rows |-> << <<"1", "a">>, <<"2", "b">>, <<"3", "c">> >>]
RSB == [id |-> "B", columns |-> <<"id", "name">>,
        rows |-> << <<"7", "x">> >>]
ResultSets == {RSA, RSB}

row_count(rs) == Len(rs.rows)

\* The batches of a query: none, or one batch that holds a result set
Batches == {<<>>} \cup {<<[result_set |-> Some(rs)]>> : rs \in ResultSets}

\* ExecutionState of query_execution.query
ExecutionStates == {"EXECUTED", "EXECUTING"}

Messages == {"connection lost"}

\* DataEditSessionExecutionState(query, message)
DataEditSessionExecutionState ==
    {[query |-> None, message |-> m] : m \in Messages}
    \cup {[query |-> Some([execution_state |-> "EXECUTED", batches |-> b]),
            message |-> ""] : b \in Batches}
    \cup {[query |-> Some([execution_state |-> st, batches |-> <<[result_set |-> Some(RSA)]>>]),
            message |-> ""] : st \in ExecutionStates}

ObjectNames == {"t", "missing"}

\* SmoEditTableMetadataFactory.get: the metadata of the object, or a failure
\* when the object cannot be resolved.
\* Every call that succeeds returns a new metadata object; id tells the objects
\* apart.
MetadataFactoryGet(object_name, id) ==
    IF object_name = "t"
    THEN [raised |-> FALSE, err |-> "",
          value |-> [id |-> id,
                     escaped_multipart_name |-> "public.t",
                     column_metadata |-> <<"id", "name">>,
                     db_columns |-> <<>>]]
    ELSE [raised |-> TRUE, err |-> "ResolutionError",
          value |-> [id |-> id,
                     escaped_multipart_name |-> "",
                     column_metadata |-> <<>>,
                     db_columns |-> <<>>]]

\* EditTableMetadata.extend(columns)
Extend(metadata, columns) == [metadata EXCEPT !.db_columns = columns]

(***************************************************************************)
(* _construct_initialize_query                                             *)
(***************************************************************************)
LimitResults == {None} \cup {Some(n) : n \in {-1, 0, 10}}

Digit(d) == CASE d = 0 -> "0" [] d = 1 -> "1" [] d = 2 -> "2" [] d = 3 -> "3"
              [] d = 4 -> "4" [] d = 5 -> "5" [] d = 6 -> "6" [] d = 7 -> "7"
              [] d = 8 -> "8" [] d = 9 -> "9"

RECURSIVE Str(_)
\* str(n) of a positive integer, one token per digit
Str(n) == IF n < 10 THEN <<Digit(n)>> ELSE Str(n \div 10) \o <<Digit(n % 10)>>

\* sql.Identifier(name): the quoted identifier, one token
Identifier(name) == <<"\"", name, "\"">>

RECURSIVE Join(_, _)
\* sep.join(parts), parts being token sequences
Join(sep, parts) ==
    IF parts = <<>> THEN <<>>
    ELSE IF Len(parts) = 1 THEN parts[1]
    ELSE parts[1] \o sep \o Join(sep, Tail(parts))

\* Line 87: the condition under which limit_clause is assigned
HasLimit(limit_results) == ~IsNone(limit_results) /\ Val(limit_results) > 0

\* Lines 84-95.  limit_clause is a local that is assigned only inside the
\* `if`; reading it on line 93 when it was not assigned raises
\* UnboundLocalError.
_construct_initialize_query(metadata, limit_results) ==
    LET column_names == [i \in 1..Len(metadata.column_metadata) |->
                            Identifier(metadata.column_metadata[i])]
    IN  IF HasLimit(limit_results)
        THEN LET limit_clause == Join(<<" ">>, << <<" LIMIT">>, Str(Val(limit_results)) >>)
             IN  [raised |-> FALSE, err |-> "",
                  value |-> <<"SELECT", " ">> \o Join(<<",", " ">>, column_names)
                            \o <<" ", "FROM", " ">>
                            \o Identifier(metadata.escaped_multipart_name)
                            \o <<" ">> \o limit_clause]
        ELSE [raised |-> TRUE, err |-> "UnboundLocalError", value |-> <<>>]

(***************************************************************************)
(* The session object                                                      *)
(***************************************************************************)
Self == [_session_cache |-> _session_cache,
         _next_row_id |-> _next_row_id,
         _is_initialized |-> _is_initialized,
         _result_set |-> _result_set,
         table_metadata |-> table_metadata]

\* _validate_query_for_session without its check
_validate_query_for_session_unchecked(query) ==
    [raised |-> FALSE, err |-> ""]

\* Lines 79-82
_validate_query_for_session(query) ==
    IF query.execution_state # "EXECUTED"
    THEN [raised |-> TRUE, err |-> "Execution not completed"]
    ELSE [raised |-> FALSE, err |-> ""]

\* Line 60
ExtendTableMetadata(self, columns) ==
    [self EXCEPT !.table_metadata = Some(Extend(Val(self.table_metadata), columns))]

\* Adoption that takes the next row id from the number of columns
AdoptResultSet_columns(self, rs) ==
    [self EXCEPT !._result_set = Some(rs),
                 !._next_row_id = Some(Len(rs.columns)),
                 !._is_initialized = TRUE]

\* Adoption that starts the session over with an empty edit cache
AdoptResultSet_reset(self, rs) ==
    [self EXCEPT !._result_set = Some(rs),
                 !._next_row_id = Some(row_count(rs)),
                 !._is_initialized = TRUE,
                 !._session_cache = <<>>]

\* Lines 57-59: adoption of the result set
AdoptResultSet(self, rs) ==
    [self EXCEPT !._result_set = Some(rs),
                 !._next_row_id = Some(row_count(rs)),
                 !._is_initialized = TRUE]

\* Lines 52-62, the body of the try block.  extend_raises and
\* on_success_raises are the behaviour of the two collaborators called last.
TryBody(self, execution_state, extend_raises, on_success_raises) ==
    IF IsNone(execution_state.query)
    THEN [self |-> self, raised |-> TRUE, err |-> execution_state.message, on_success |-> 0]
    ELSE
    LET query == Val(execution_state.query)
        v == _validate_query_for_session(query)
    IN  IF v.raised
        THEN [self |-> self, raised |-> TRUE, err |-> v.err, on_success |-> 0]
        ELSE IF query.batches = <<>>
        THEN [self |-> self, raised |-> TRUE, err |-> "IndexError", on_success |-> 0]
        ELSE IF IsNone(query.batches[1].result_set)
        THEN [self |-> [self EXCEPT !._result_set = None],
              raised |-> TRUE, err |-> "AttributeError", on_success |-> 0]
        ELSE
        LET rs == Val(query.batches[1].result_set)
            adopted == AdoptResultSet(self, rs)
        IN  IF extend_raises
            THEN [self |-> adopted, raised |-> TRUE, err |-> "ExtendError", on_success |-> 0]
            ELSE IF on_success_raises
            THEN [self |-> ExtendTableMetadata(adopted, rs.columns),
                  raised |-> TRUE, err |-> "CallbackError", on_success |-> 1]
            ELSE [self |-> ExtendTableMetadata(adopted, rs.columns),
                  raised |-> FALSE, err |-> "", on_success |-> 1]

\* A completion callback whose except clause misses the errors of the
\* collaborators
on_query_execution_complete_narrow(self, execution_state, extend_raises, on_success_raises) ==
    LET r == TryBody(self, execution_state, extend_raises, on_success_raises)
    IN  [self |-> r.self,
         on_success |-> r.on_success,
         on_failure |-> IF r.raised /\ r.err \notin {"IndexError", "ExtendError"}
                        THEN 1 ELSE 0,
         raised |-> r.raised /\ r.err \in {"IndexError", "ExtendError"},
         err |-> r.err]

\* A completion callback that raises the error again after it reported it
on_query_execution_complete_reraising(self, execution_state, extend_raises, on_success_raises) ==
    LET r == TryBody(self, execution_state, extend_raises, on_success_raises)
    IN  [self |-> r.self,
         on_success |-> r.on_success,
         on_failure |-> IF r.raised THEN 1 ELSE 0,
         raised |-> r.raised,
         err |-> r.err]

\* A completion callback whose handler marks the session not initialized
on_query_execution_complete_resetting(self, execution_state, extend_raises, on_success_raises) ==
    LET r == TryBody(self, execution_state, extend_raises, on_success_raises)
    IN  [self |-> IF r.raised THEN [r.self EXCEPT !._is_initialized = FALSE] ELSE r.self,
         on_success |-> r.on_success,
         on_failure |-> IF r.raised THEN 1 ELSE 0,
         raised |-> FALSE,
         err |-> r.err]

\* Lines 50-65.  The handler of line 64 catches every Exception the try block
\* raises and line 65 hands it to on_failure, which returns: nothing is raised
\* out of the callback.
on_query_execution_complete(self, execution_state, extend_raises, on_success_raises) ==
    LET r == TryBody(self, execution_state, extend_raises, on_success_raises)
    IN  [self |-> r.self,
         on_success |-> r.on_success,
         on_failure |-> IF r.raised THEN 1 ELSE 0,
         raised |-> FALSE,
         err |-> r.err]

(***************************************************************************)
(* update_cell and the pending-edit entity                                 *)
(***************************************************************************)
RowIds == 0..1
ColumnIndexes == 0..2
NewValues == {"X"}

\* A reference to a metadata object: the object's id and the part of it that
\* extend leaves alone.
Ref(metadata) ==
    IF IsNone(metadata) THEN None
    ELSE Some([id |-> Val(metadata).id,
               column_metadata |-> Val(metadata).column_metadata])

\* RowUpdate(row_id, result_set, table_metadata): the entity keeps the
\* references it is given and starts with no cell update.
RowUpdate(row_id, result_set, metadata) ==
    [row_id |-> row_id, result_set |-> result_set, table_metadata |-> Ref(metadata),
     cell_updates |-> <<>>]

\* RowUpdate.set_cell_value: validates the column index against the bounds of
\* the metadata, then records the new display value of the cell.
set_cell_value(edit_row, column_index, new_value) ==
    IF IsNone(edit_row.table_metadata)
    THEN [raised |-> TRUE, err |-> "AttributeError", edit_row |-> edit_row]
    ELSE IF column_index < 0
            \/ column_index >= Len(Val(edit_row.table_metadata).column_metadata)
    THEN [raised |-> TRUE, err |-> "ValidationError", edit_row |-> edit_row]
    ELSE [raised |-> FALSE, err |-> "",
          edit_row |-> [edit_row EXCEPT !.cell_updates =
                          [c \in DOMAIN edit_row.cell_updates \cup {column_index} |->
                              IF c = column_index THEN new_value
                              ELSE edit_row.cell_updates[c]]]]

\* A lookup that creates a new entity on every call
GetOrCreate_always(self, row_id) ==
    [r \in DOMAIN self._session_cache \cup {row_id} |->
        IF r = row_id THEN RowUpdate(row_id, self._result_set, self.table_metadata)
        ELSE self._session_cache[r]]

\* Lines 69-73: get the entity of the row, creating and caching it when the
\* row has none.
GetOrCreate(self, row_id) ==
    IF row_id \in DOMAIN self._session_cache
    THEN self._session_cache
    ELSE [r \in DOMAIN self._session_cache \cup {row_id} |->
            IF r = row_id THEN RowUpdate(row_id, self._result_set, self.table_metadata)
            ELSE self._session_cache[r]]

\* Lines 67-77.  The entity is cached before set_cell_value runs on it.
update_cell(self, row_id, column_index, new_value) ==
    LET cache == GetOrCreate(self, row_id)
        r == set_cell_value(cache[row_id], column_index, new_value)
    IN  [self |-> [self EXCEPT !._session_cache = [cache EXCEPT ![row_id] = r.edit_row]],
         raised |-> r.raised, err |-> r.err]

(***************************************************************************)
(* get_rows                                                                *)
(***************************************************************************)
\* ResultSetSubset.from_result_set: the rows [start_index, end_index) of the
\* result set, the end bound clamped to the row count.
FromResultSet(rs, start_index, end_index) ==
    SubSeq(rs.rows, start_index + 1, Min(end_index, row_count(rs)))

\* EditRow(row_id, [EditCell(cell.display_value, False) for cell in row])
EditRow(row_id, row) ==
    [row_id |-> row_id,
     cells |-> [i \in 1..Len(row) |-> [display_value |-> row[i], is_dirty |-> FALSE]]]

\* RowUpdate.get_edit_row(cached_row): the cells of cached_row, those with a
\* cell update replaced by the new value, dirty.
get_edit_row(edit_row, cached_row) ==
    [row_id |-> edit_row.row_id,
     cells |-> [i \in 1..Len(cached_row) |->
                  IF (i - 1) \in DOMAIN edit_row.cell_updates
                  THEN [display_value |-> edit_row.cell_updates[i - 1], is_dirty |-> TRUE]
                  ELSE [display_value |-> cached_row[i], is_dirty |-> FALSE]]]

\* A row id that forgets the start of the window
RowIdOf_offset(start_index, index) == index

\* Line 105
RowIdOf(start_index, index) == start_index + index

\* Line 108: the row handed to get_edit_row is subset.rows[0]
CachedRowArgument(rows, index) == rows[1]

\* Lines 103-113; index is the 0-based index of enumerate
RenderRows(self, rows, start_index) ==
    [i \in 1..Len(rows) |->
        LET index == i - 1
            row_id == RowIdOf(start_index, index)
        IN  IF row_id \in DOMAIN self._session_cache
            THEN get_edit_row(self._session_cache[row_id], CachedRowArgument(rows, index))
            ELSE EditRow(row_id, rows[i])]

\* get_rows without the else branch of lines 100-101: past the last row the
\* local `subset` is unbound where line 104 reads it
get_rows_unbound(self, start_index, end_index) ==
    IF IsNone(self._result_set)
    THEN [self |-> self, raised |-> TRUE, err |-> "AttributeError", rows |-> <<>>]
    ELSE LET rs == Val(self._result_set)
         IN  IF start_index < row_count(rs)
             THEN [self |-> self, raised |-> FALSE, err |-> "",
                   rows |-> RenderRows(self, FromResultSet(rs, start_index, end_index),
                                       start_index)]
             ELSE [self |-> self, raised |-> TRUE, err |-> "UnboundLocalError",
                   rows |-> <<>>]

\* get_rows that creates and caches an entity for every row it renders
get_rows_caching(self, start_index, end_index) ==
    IF IsNone(self._result_set)
    THEN [self |-> self, raised |-> TRUE, err |-> "AttributeError", rows |-> <<>>]
    ELSE LET rs == Val(self._result_set)
             rows == IF start_index < row_count(rs)
                     THEN FromResultSet(rs, start_index, end_index)
                     ELSE <<>>
             ids == {RowIdOf(start_index, i - 1) : i \in 1..Len(rows)}
         IN  [self |-> [self EXCEPT !._session_cache =
                          [r \in DOMAIN self._session_cache \cup ids |->
                              IF r \in DOMAIN self._session_cache
                              THEN self._session_cache[r]
                              ELSE RowUpdate(r, self._result_set, self.table_metadata)]],
              raised |-> FALSE, err |-> "",
              rows |-> RenderRows(self, rows, start_index)]

\* Lines 97-113.  self._result_set.row_count on a None result set raises
\* AttributeError.  No line of get_rows assigns to the session: `self` is
\* returned as it was received.
get_rows(self, start_index, end_index) ==
    IF IsNone(self._result_set)
    THEN [self |-> self, raised |-> TRUE, err |-> "AttributeError", rows |-> <<>>]
    ELSE LET rs == Val(self._result_set)
             rows == IF start_index < row_count(rs)
                     THEN FromResultSet(rs, start_index, end_index)
                     ELSE <<>>
         IN  [self |-> self, raised |-> FALSE, err |-> "",
              rows |-> RenderRows(self, rows, start_index)]

(***************************************************************************)
(* initialize                                                              *)
(***************************************************************************)
\* The fields a completion callback adopts
Snapshot(self) == [_result_set |-> self._result_set,
                   _next_row_id |-> self._next_row_id,
                   _is_initialized |-> self._is_initialized]

NoCompletion == [execution_state |-> [query |-> None, message |-> ""],
                 extend_raises |-> FALSE, on_success_raises |-> FALSE]

\* The executor either keeps the completion callback for later (sync = FALSE)
\* or fires it before it returns (sync = TRUE), with the execution state and
\* the collaborator behaviour of `completion`.
\* What a completion brings: the execution state and whether extend and
\* on_success raise.  The two flags are varied only where the callback reaches
\* the calls they describe.
ReachesExtend(es) ==
    /\ ~IsNone(es.query)
    /\ Val(es.query).execution_state = "EXECUTED"
    /\ Val(es.query).batches # <<>>
    /\ ~IsNone(Val(es.query).batches[1].result_set)

Completions ==
    {[execution_state |-> es, extend_raises |-> FALSE, on_success_raises |-> FALSE] :
        es \in DataEditSessionExecutionState}
    \cup {[execution_state |-> es, extend_raises |-> TRUE, on_success_raises |-> FALSE] :
        es \in {e \in DataEditSessionExecutionState : ReachesExtend(e)}}
    \cup {[execution_state |-> es, extend_raises |-> FALSE, on_success_raises |-> TRUE] :
        es \in {e \in DataEditSessionExecutionState : ReachesExtend(e)}}

Executors ==
    {[sync |-> FALSE, completion |-> NoCompletion]}
    \cup {[sync |-> TRUE, completion |-> c] : c \in Completions}

\* An initialize that reports a failed resolution through on_failure and
\* returns
ResolutionFailure_reported(self, err) ==
    [self |-> [self EXCEPT !.table_metadata = None], raised |-> FALSE, err |-> "",
     sql |-> <<>>, executor_invoked |-> FALSE, completed |-> FALSE,
     on_success |-> 0, on_failure |-> 1, cb_err |-> err]

\* Lines 42-44 when the factory raises: the error leaves initialize before the
\* assignment to table_metadata and before line 46
ResolutionFailure(self, err) ==
    [self |-> self, raised |-> TRUE, err |-> err, sql |-> <<>>,
     executor_invoked |-> FALSE, completed |-> FALSE,
     on_success |-> 0, on_failure |-> 0, cb_err |-> ""]

\* An initialize that keeps the table metadata of an earlier call
AssignTableMetadata_once(self, metadata) ==
    IF IsNone(self.table_metadata)
    THEN [self EXCEPT !.table_metadata = Some(metadata)]
    ELSE self

\* Line 42: the assignment of what the factory returned
AssignTableMetadata(self, metadata) ==
    [self EXCEPT !.table_metadata = Some(metadata)]

\* Lines 37-48.  id names the metadata object the factory creates.  An error
\* raised by a callback the executor fires before it returns leaves initialize.
initialize(self, object_name, limit_results, id, executor) ==
    LET md == MetadataFactoryGet(object_name, id)
        none == ResolutionFailure(self, md.err)
    IN  IF md.raised THEN none
        ELSE
        LET s1 == AssignTableMetadata(self, md.value)
            q == _construct_initialize_query(md.value, limit_results)
        IN  IF q.raised
            THEN [none EXCEPT !.self = s1, !.err = q.err]
            ELSE IF ~executor.sync
            THEN [none EXCEPT !.self = s1, !.raised = FALSE, !.err = "", !.sql = q.value,
                              !.executor_invoked = TRUE]
            ELSE LET c == executor.completion
                     r == on_query_execution_complete(s1, c.execution_state,
                              c.extend_raises, c.on_success_raises)
                 IN  [self |-> r.self, raised |-> r.raised,
                      err |-> IF r.raised THEN r.err ELSE "", sql |-> q.value,
                      executor_invoked |-> TRUE, completed |-> TRUE,
                      on_success |-> r.on_success, on_failure |-> r.on_failure,
                      cb_err |-> r.err]

(***************************************************************************)
(* State machine                                                           *)
(***************************************************************************)
BlankOp == [op |-> "none", call |-> 0, object_name |-> "", limit_results |-> None,
            raised |-> FALSE, err |-> "", sql |-> <<>>, executor_invoked |-> FALSE,
            completed |-> FALSE, completion |-> NoCompletion,
            on_success |-> 0, on_failure |-> 0, cb_err |-> "",
            row_id |-> 0, column_index |-> 0, new_value |-> "",
            start_index |-> 0, end_index |-> 0, rows |-> <<>>]

Init ==
    /\ _session_cache = <<>>
    /\ _next_row_id = None
    /\ _is_initialized = FALSE
    /\ _result_set = None
    /\ table_metadata = None
    /\ pending = {}
    /\ nCalls = 0
    /\ lastOp = BlankOp
    /\ nUpdates = 0
    /\ failed = FALSE

SetSelf(self) ==
    /\ _session_cache' = self._session_cache
    /\ _next_row_id' = self._next_row_id
    /\ _is_initialized' = self._is_initialized
    /\ _result_set' = self._result_set
    /\ table_metadata' = self.table_metadata

\* One call of initialize with the given executor
InitializeWith(object_name, limit_results, executor) ==
    /\ nCalls < MaxCalls
    /\ pending = {}
    /\ \E call \in {nCalls + 1} :
       \E r \in {initialize(Self, object_name, limit_results, call, executor)} :
           /\ SetSelf(r.self)
           /\ pending' = IF r.executor_invoked /\ ~r.completed
                         THEN pending \cup {call}
                         ELSE pending
           /\ nCalls' = call
           /\ lastOp' = [BlankOp EXCEPT
                            !.op = "initialize", !.call = call,
                            !.object_name = object_name, !.limit_results = limit_results,
                            !.raised = r.raised, !.err = r.err, !.sql = r.sql,
                            !.executor_invoked = r.executor_invoked,
                            !.completed = r.completed,
                            !.completion = IF r.completed THEN executor.completion
                                           ELSE NoCompletion,
                            !.on_success = r.on_success, !.on_failure = r.on_failure,
                            !.cb_err = r.cb_err]
           /\ failed' = (failed \/ r.on_failure > 0)
           /\ UNCHANGED nUpdates

\* initialize with an executor that returns before the query completed
Initialize ==
    \E object_name \in ObjectNames, limit_results \in LimitResults :
        InitializeWith(object_name, limit_results,
                       [sync |-> FALSE, completion |-> NoCompletion])

\* initialize with an executor that fires the completion callback before it
\* returns
InitializeSync ==
    \E object_name \in ObjectNames, limit_results \in LimitResults :
        /\ ~MetadataFactoryGet(object_name, nCalls + 1).raised
        /\ HasLimit(limit_results)
        /\ \E executor \in {e \in Executors : e.sync} :
              InitializeWith(object_name, limit_results, executor)

\* The executor fires the completion callback of an outstanding call (line 48)
Complete ==
    \E p \in pending, c \in Completions :
        \E r \in {on_query_execution_complete(Self, c.execution_state,
                      c.extend_raises, c.on_success_raises)} :
            /\ SetSelf(r.self)
            /\ pending' = pending \ {p}
            /\ lastOp' = [BlankOp EXCEPT
                            !.op = "on_query_execution_complete", !.call = p,
                            !.completed = TRUE,
                            !.completion = c,
                            !.raised = r.raised,
                            !.err = IF r.raised THEN r.err ELSE "",
                            !.on_success = r.on_success, !.on_failure = r.on_failure,
                            !.cb_err = r.err]
            /\ failed' = (failed \/ r.on_failure > 0)
            /\ UNCHANGED <<nCalls, nUpdates>>

UpdateCell ==
    /\ nUpdates < MaxUpdates
    /\ \E row_id \in RowIds, column_index \in ColumnIndexes, new_value \in NewValues :
        \E r \in {update_cell(Self, row_id, column_index, new_value)} :
            /\ SetSelf(r.self)
            /\ lastOp' = [BlankOp EXCEPT
                            !.op = "update_cell", !.row_id = row_id,
                            !.column_index = column_index, !.new_value = new_value,
                            !.raised = r.raised, !.err = r.err]
            /\ nUpdates' = nUpdates + 1
            /\ UNCHANGED <<pending, nCalls, failed>>

GetRows ==
    \E start_index \in 0..MaxIndex :
      \E end_index \in (start_index + 1)..MaxIndex :
        \E r \in {get_rows(Self, start_index, end_index)} :
            /\ SetSelf(r.self)
            /\ lastOp' = [BlankOp EXCEPT
                            !.op = "get_rows", !.start_index = start_index,
                            !.end_index = end_index,
                            !.raised = r.raised, !.err = r.err, !.rows = r.rows]
            /\ UNCHANGED <<pending, nCalls, nUpdates, failed>>

Next == Initialize \/ InitializeSync \/ Complete \/ UpdateCell \/ GetRows

Spec == Init /\ [][Next]_vars

(***************************************************************************)
(* Properties                                                              *)
(***************************************************************************)
\* The step ran a completion callback (fired by the executor later, or inside
\* initialize).  In the state after such a step the session is as it was when
\* on_success or on_failure was invoked: on_failure is the last thing the
\* callback does, and neither callback touches the session.
CallbackStep == lastOp'.completed /\ (nCalls' # nCalls \/ pending' # pending)

UpdateStep == lastOp'.op = "update_cell" /\ nUpdates' # nUpdates

GetRowsStep == lastOp'.op = "get_rows" /\ lastOp' # lastOp

LastQuery == lastOp.completion.execution_state.query

\* The error the steps of the completion callback fail with, "" when none fails
StepError(c) ==
    IF IsNone(c.execution_state.query) THEN c.execution_state.message
    ELSE IF Val(c.execution_state.query).execution_state # "EXECUTED"
    THEN "Execution not completed"
    ELSE IF Val(c.execution_state.query).batches = <<>> THEN "IndexError"
    ELSE IF c.extend_raises THEN "ExtendError"
    ELSE ""

\* C1: every completion callback invokes exactly one of on_success and
\* on_failure, whatever execution state it is given and whichever of its steps
\* or callbacks raises.
C1_ExactlyOneCallback ==
    lastOp.completed => lastOp.on_success + lastOp.on_failure = 1

\* C2 as written: a failure in any step of initialize, metadata resolution and
\* query construction included, ends in exactly one on_failure.
C2_AnyFailureReported ==
    /\ (lastOp.op = "initialize" /\ lastOp.raised) => lastOp.on_failure = 1
    /\ (lastOp.completed /\ StepError(lastOp.completion) # "") => lastOp.on_failure = 1

\* C2 amended: a failure in a step of the completion callback (execution
\* reported as failed, validation of the execution state, adoption of the
\* result set) ends in exactly one on_failure, given that error; a failure of
\* metadata resolution or of query construction is raised by initialize, which
\* then invokes neither the executor nor on_failure.
C2_CallbackFailureReported ==
    /\ (lastOp.completed /\ StepError(lastOp.completion) # "") =>
            /\ lastOp.on_failure = 1
            /\ lastOp.on_success = 0
            /\ lastOp.cb_err = StepError(lastOp.completion)
    /\ (lastOp.op = "initialize" /\ lastOp.raised) =>
            /\ lastOp.on_failure = 0
            /\ ~lastOp.executor_invoked

C2_Witness ==
    /\ lastOp.op = "on_query_execution_complete"
    /\ ~IsNone(LastQuery) /\ Val(LastQuery).batches = <<>>
    /\ lastOp.on_failure = 1
    /\ lastOp.cb_err = "IndexError"

\* C3: while the session has not completed a successful initialization,
\* update_cell and get_rows are rejected with an error and change no field of
\* the session.
C3_RejectedBeforeReady ==
    [][(~_is_initialized /\ (UpdateStep \/ GetRowsStep)) =>
            (lastOp'.raised /\ Self' = Self)]_vars

\* C4: when on_success is invoked the session is initialized, holds the result
\* set of the first batch, its next row id is that result set's row count and
\* the metadata is extended with the result set's columns; and in every state
\* an initialized session has a result set whose row count is the next row id.
C4_ReadyAtSuccess ==
    /\ (lastOp.completed /\ lastOp.on_success = 1) =>
            /\ _is_initialized
            /\ _result_set = Val(LastQuery).batches[1].result_set
            /\ _next_row_id = Some(row_count(Val(_result_set)))
            /\ Val(table_metadata).db_columns = Val(_result_set).columns
    /\ _is_initialized =>
            /\ ~IsNone(_result_set)
            /\ _next_row_id = Some(row_count(Val(_result_set)))

C4_Witness ==
    /\ lastOp.op = "on_query_execution_complete"
    /\ lastOp.on_success = 1 /\ lastOp.on_failure = 0
    /\ _result_set = Some(RSA)
    /\ _next_row_id = Some(3)

\* C5: when a completion callback invokes on_failure, the session is not
\* initialized and the callback has adopted nothing: _result_set, _next_row_id
\* and _is_initialized are as before.
C5_NoAdoptionOnFailure ==
    [][(CallbackStep /\ lastOp'.on_failure = 1) =>
            (~_is_initialized' /\ Snapshot(Self)' = Snapshot(Self))]_vars

\* C6: the session becomes initialized only in a completion callback given a
\* non-null query in state EXECUTED; a callback given a null query invokes
\* on_failure with the supplied message, one given a query in another state
\* invokes on_failure with 'Execution not completed', and both invoke no
\* on_success and leave the session as initialized as it was.
C6_ReadyOnlyWhenExecuted ==
    [][/\ (~_is_initialized /\ _is_initialized') =>
            /\ CallbackStep
            /\ ~IsNone(LastQuery')
            /\ Val(LastQuery').execution_state = "EXECUTED"
       /\ (CallbackStep /\ IsNone(LastQuery')) =>
            /\ lastOp'.on_failure = 1 /\ lastOp'.on_success = 0
            /\ lastOp'.cb_err = lastOp'.completion.execution_state.message
            /\ _is_initialized' = _is_initialized
       /\ (CallbackStep /\ ~IsNone(LastQuery')
             /\ Val(LastQuery').execution_state # "EXECUTED") =>
            /\ lastOp'.on_failure = 1 /\ lastOp'.on_success = 0
            /\ lastOp'.cb_err = "Execution not completed"
            /\ _is_initialized' = _is_initialized]_vars

C6_Witness ==
    /\ lastOp.completed
    /\ ~IsNone(LastQuery) /\ Val(LastQuery).execution_state = "EXECUTING"
    /\ lastOp.on_failure = 1 /\ lastOp.on_success = 0
    /\ ~_is_initialized

\* The statement has a LIMIT clause for n: the tokens of ' LIMIT n' in a row
HasLimitClause(statement, n) ==
    \E i \in 1..Len(statement) :
        /\ i + 1 + Len(Str(n)) <= Len(statement)
        /\ statement[i] = " LIMIT"
        /\ statement[i + 1] = " "
        /\ SubSeq(statement, i + 2, i + 1 + Len(Str(n))) = Str(n)

MentionsLimit(statement) == \E i \in 1..Len(statement) : statement[i] = " LIMIT"

\* C7: for every filter the query builder returns a SELECT statement, with
\* 'LIMIT n' if and only if limit_results is a positive integer n.
C7_LimitIffPositive ==
    (lastOp.op = "initialize" /\ lastOp.err # "ResolutionError") =>
        /\ lastOp.err # "UnboundLocalError"
        /\ lastOp.sql # <<>> /\ Head(lastOp.sql) = "SELECT"
        /\ IF ~IsNone(lastOp.limit_results) /\ Val(lastOp.limit_results) >= 1
           THEN HasLimitClause(lastOp.sql, Val(lastOp.limit_results))
           ELSE ~MentionsLimit(lastOp.sql)

\* C8: the first update_cell on a row id caches one new entity for it; every
\* later update_cell on that row id works on the entity already cached (its
\* bindings and its updates of other columns are kept) and leaves the set of
\* cached row ids alone; no update_cell touches the entity of another row.
C8_OneEntityPerRow ==
    [][UpdateStep =>
        LET r == lastOp'.row_id
            c == lastOp'.column_index
        IN  /\ DOMAIN _session_cache' = DOMAIN _session_cache \cup {r}
            /\ \A o \in DOMAIN _session_cache \ {r} :
                    _session_cache'[o] = _session_cache[o]
            /\ r \in DOMAIN _session_cache =>
                    /\ _session_cache'[r].result_set = _session_cache[r].result_set
                    /\ _session_cache'[r].table_metadata = _session_cache[r].table_metadata
                    /\ \A k \in DOMAIN _session_cache[r].cell_updates \ {c} :
                          /\ k \in DOMAIN _session_cache'[r].cell_updates
                          /\ _session_cache'[r].cell_updates[k] =
                                _session_cache[r].cell_updates[k]
            /\ r \notin DOMAIN _session_cache =>
                    /\ _session_cache'[r].result_set = _result_set
                    /\ _session_cache'[r].table_metadata = Ref(table_metadata)
                    /\ DOMAIN _session_cache'[r].cell_updates \subseteq {c}]_vars

C8_Witness ==
    /\ lastOp.op = "update_cell" /\ ~lastOp.raised
    /\ lastOp.row_id \in DOMAIN _session_cache
    /\ DOMAIN _session_cache[lastOp.row_id].cell_updates = {0, 1}

\* The window get_rows was asked for holds the row with identifier row_id
InWindow(row_id) ==
    /\ lastOp.start_index <= row_id
    /\ row_id < lastOp.end_index
    /\ row_id < row_count(Val(_result_set))

\* The row get_rows returned for row_id
Returned(row_id) == lastOp.rows[row_id - lastOp.start_index + 1]

\* C9: on an initialized session, get_rows renders every row of the window
\* that has a pending edit from that row's own original: the edited columns
\* carry the new value, dirty, every other column the original display value
\* of that row, not dirty.
C9_EditedRowFromOwnOriginal ==
    (lastOp.op = "get_rows" /\ _is_initialized /\ ~lastOp.raised) =>
        \A row_id \in DOMAIN _session_cache :
            (InWindow(row_id) /\ DOMAIN _session_cache[row_id].cell_updates # {}) =>
                /\ Len(lastOp.rows) >= row_id - lastOp.start_index + 1
                /\ \A i \in 1..Len(Val(_result_set).columns) :
                      Returned(row_id).cells[i] =
                          IF (i - 1) \in DOMAIN _session_cache[row_id].cell_updates
                          THEN [display_value |-> _session_cache[row_id].cell_updates[i - 1],
                                is_dirty |-> TRUE]
                          ELSE [display_value |-> Val(_result_set).rows[row_id + 1][i],
                                is_dirty |-> FALSE]

\* C10: on an initialized session, every row get_rows returns that has no
\* pending edit carries the identifier start_index + offset and, in every
\* column, that row's original display value, not dirty.
C10_UneditedRowIsOriginal ==
    (lastOp.op = "get_rows" /\ _is_initialized /\ ~lastOp.raised) =>
        \A i \in 1..Len(lastOp.rows) :
            LET row_id == lastOp.start_index + (i - 1)
            IN  row_id \notin DOMAIN _session_cache =>
                    /\ lastOp.rows[i].row_id = row_id
                    /\ row_id < row_count(Val(_result_set))
                    /\ lastOp.rows[i].cells =
                          [k \in 1..Len(Val(_result_set).columns) |->
                              [display_value |-> Val(_result_set).rows[row_id + 1][k],
                               is_dirty |-> FALSE]]

C10_Witness ==
    /\ lastOp.op = "get_rows" /\ _is_initialized
    /\ lastOp.start_index = 1
    /\ Len(lastOp.rows) = 1
    /\ 1 \notin DOMAIN _session_cache
    /\ lastOp.rows[1].row_id = 1
    /\ lastOp.rows[1].cells[2] = [display_value |-> "b", is_dirty |-> FALSE]

\* C11: on a ready session a get_rows whose start_index is at or past the row
\* count of the result set returns the empty sequence and raises nothing,
\* whatever rows the edit cache holds.
C11_PastTheEndIsEmpty ==
    (/\ lastOp.op = "get_rows"
     /\ _is_initialized
     /\ ~IsNone(_result_set)
     /\ lastOp.start_index >= row_count(Val(_result_set)))
    => (~lastOp.raised /\ lastOp.rows = <<>>)

\* A window past the single row of RSB, read while the cache holds an entity
\* for row id 1, a row the result set does not have
C11_Witness ==
    /\ lastOp.op = "get_rows"
    /\ _is_initialized
    /\ _result_set = Some(RSB)
    /\ lastOp.start_index = 1
    /\ 1 \in DOMAIN _session_cache
    /\ ~lastOp.raised
    /\ lastOp.rows = <<>>

\* The lifecycle state of section 4.1 as the session records it: Ready is
\* _is_initialized (line 59); a session that is not ready is Failed once a
\* completion callback reported a failure, Initializing while a callback is
\* outstanding, Uninitialized otherwise.
Lifecycle ==
    IF _is_initialized THEN "Ready"
    ELSE IF failed THEN "Failed"
    ELSE IF pending # {} THEN "Initializing"
    ELSE "Uninitialized"

LifecycleNext ==
    IF _is_initialized' THEN "Ready"
    ELSE IF failed' THEN "Failed"
    ELSE IF pending' # {} THEN "Initializing"
    ELSE "Uninitialized"

C13_ResolutionFailureIsSynchronous ==
    [][(/\ nCalls' # nCalls
        /\ MetadataFactoryGet(lastOp'.object_name, lastOp'.call).raised)
       => (/\ lastOp'.raised
           /\ lastOp'.err = MetadataFactoryGet(lastOp'.object_name, lastOp'.call).err
           /\ ~lastOp'.executor_invoked
           /\ ~lastOp'.completed
           /\ lastOp'.on_success = 0
           /\ lastOp'.on_failure = 0
           /\ pending' = pending
           /\ table_metadata' = table_metadata
           /\ _result_set' = _result_set
           /\ _next_row_id' = _next_row_id
           /\ _is_initialized' = _is_initialized
           /\ _session_cache' = _session_cache)]_vars

\* A ready session with an edited row on which a second initialize failed to
\* resolve its object
C13_Witness ==
    /\ lastOp.op = "initialize"
    /\ lastOp.call = 2
    /\ MetadataFactoryGet(lastOp.object_name, lastOp.call).raised
    /\ lastOp.raised
    /\ _is_initialized
    /\ ~IsNone(table_metadata)
    /\ _session_cache # <<>>

\* The completion brought an execution error: no query at all, or a query that
\* is not in the executed state
ExecutionError(c) ==
    \/ IsNone(c.execution_state.query)
    \/ Val(c.execution_state.query).execution_state # "EXECUTED"

\* C14: an execution error is never raised out of the completion callback nor
\* out of initialize, also when the executor fires the callback before it
\* returns to initialize; it is observable only as one invocation of
\* on_failure.
C14_ExecutionErrorNeverRaised ==
    (lastOp.completed /\ ExecutionError(lastOp.completion))
    => (/\ ~lastOp.raised
        /\ lastOp.err = ""
        /\ lastOp.on_failure = 1
        /\ lastOp.on_success = 0)

\* An initialize whose executor fired the callback, with no query, before it
\* returned
C14_Witness ==
    /\ lastOp.op = "initialize"
    /\ lastOp.executor_invoked
    /\ lastOp.completed
    /\ IsNone(LastQuery)
    /\ ~lastOp.raised
    /\ lastOp.on_failure = 1

\* C15: the edit cache only grows.  No operation removes a cached row id, and
\* none replaces the entity stored under a cached row id: that entity keeps
\* its row id, the result set and table metadata it was created with, and the
\* cell updates it has received.
C15_CacheOnlyGrows ==
    [][\A r \in DOMAIN _session_cache :
          /\ r \in DOMAIN _session_cache'
          /\ _session_cache'[r].row_id = _session_cache[r].row_id
          /\ _session_cache'[r].result_set = _session_cache[r].result_set
          /\ _session_cache'[r].table_metadata = _session_cache[r].table_metadata
          /\ DOMAIN _session_cache[r].cell_updates
                \subseteq DOMAIN _session_cache'[r].cell_updates]_vars

\* A second initialize completed with success on a session whose cache held
\* an edited row, and the row is still cached
C15_Witness ==
    /\ lastOp.completed
    /\ lastOp.call = 2
    /\ lastOp.on_success = 1
    /\ \E r \in DOMAIN _session_cache : _session_cache[r].cell_updates # <<>>

\* C16: in every reachable state every cached entity is bound to the result
\* set and to the table metadata the session currently owns, and that result
\* set is not null.
C16_EntitiesBoundToCurrent ==
    \A r \in DOMAIN _session_cache :
        /\ ~IsNone(_result_set)
        /\ _session_cache[r].result_set = _result_set
        /\ _session_cache[r].table_metadata = Ref(table_metadata)

\* The completion brought an executed query whose result set the callback
\* adopts without error
AdoptsWithoutError(c) == ReachesExtend(c.execution_state) /\ ~c.extend_raises

\* What C17 says of a further initialize call on a session one of whose calls
\* ended in on_failure: the table metadata is resolved anew and the query is
\* handed to the executor again.
RetryReexecutes ==
    (/\ failed
     /\ nCalls' # nCalls
     /\ ~MetadataFactoryGet(lastOp'.object_name, lastOp'.call).raised)
    => (/\ ~IsNone(table_metadata')
        /\ Val(table_metadata').id = lastOp'.call
        /\ Ref(table_metadata') # Ref(table_metadata)
        /\ (~lastOp'.raised => lastOp'.executor_invoked /\ lastOp'.sql # <<>>))

\* The session is Ready with the result set the completion brought, and
\* on_success was invoked exactly once for the call
ReadyWithNewResultSet ==
    /\ _is_initialized'
    /\ Val(lastOp'.completion.execution_state.query).batches # <<>>
    /\ _result_set'
         = Val(lastOp'.completion.execution_state.query).batches[1].result_set
    /\ ~IsNone(_result_set')
    /\ _next_row_id' = Some(row_count(Val(_result_set')))
    /\ lastOp'.on_success = 1

C18_FailedUpdateLeavesNoTrace ==
    [][(_is_initialized /\ UpdateStep /\ lastOp'.err = "ValidationError")
       => (/\ lastOp'.raised
           /\ DOMAIN _session_cache' = DOMAIN _session_cache
           /\ Self' = Self)]_vars

\* C19: get_rows is read-only.  A call leaves the cache (its row ids and its
\* entities), _result_set, table_metadata, _next_row_id and _is_initialized
\* as they were, and a get_rows that directly follows a get_rows with the same
\* arguments returns an equal sequence.
C19_GetRowsReadOnly ==
    [][lastOp'.op = "get_rows"
       => (/\ _session_cache' = _session_cache
           /\ _result_set' = _result_set
           /\ table_metadata' = table_metadata
           /\ _next_row_id' = _next_row_id
           /\ _is_initialized' = _is_initialized
           /\ (/\ lastOp.op = "get_rows"
               /\ lastOp'.start_index = lastOp.start_index
               /\ lastOp'.end_index = lastOp.end_index)
              => (lastOp'.rows = lastOp.rows /\ lastOp'.raised = lastOp.raised))]_vars

\* A get_rows that rendered an edited row from the cache and an unedited row
\* from the result set
C19_Witness ==
    /\ lastOp.op = "get_rows"
    /\ ~lastOp.raised
    /\ Len(lastOp.rows) = 2
    /\ \E i \in 1..Len(lastOp.rows) :
          /\ lastOp.rows[i].row_id \in DOMAIN _session_cache
          /\ _session_cache[lastOp.rows[i].row_id].cell_updates # <<>>
    /\ \E i \in 1..Len(lastOp.rows) : lastOp.rows[i].row_id \notin DOMAIN _session_cache

====
